---- MODULE Spec2Model ----
(***************************************************************************)
(* A model of pavilion's TestRun (lib/pavilion/test_run.py): id            *)
(* allocation under the directory lock, the skip-condition evaluator, the  *)
(* quiet-timeout run loop, the build guard and the completion marker.      *)
(***************************************************************************)
EXTENDS Integers, Sequences, FiniteSets, TLC

\* ------------------------------------------------------------------ bounds
NumAllocators == 3
MaxInitId == 3
MaxDeletes == 1
MaxKeys == 2         \* keys of not_if and only_if together
MaxVals == 3         \* values of not_if and only_if together

NumProcs == 2         \* processes holding a TestRun object of the run
MaxTime == 6          \* the clock of the run loop stops here
MaxTimeout == 2       \* the largest run timeout
MaxMembers == 2       \* members of a JSON object in a marker file
MaxCalls == 4          \* calls of TestRun methods, by all processes together
BudgetFloor == 2      \* wait budgets below -BudgetFloor are kept as that

\* Python's None, where the other values are numbers >= 0
None == -1

\* --------------------------------------------------------------- variables
VARIABLES
    \* the test_runs directory and the allocators (create_id_dir)
    id_dir,      \* the directory's entries: records [digit, num, kind]
    lock,        \* holder of test_runs/.lockfile, or 0
    apc,         \* each allocator's position in create_id_dir
    ids,         \* each allocator's local list 'ids'
    id_,         \* each allocator's local 'id_'
    ret,         \* the id each allocator returned (0: none)
    seen,        \* the run directories that existed when each allocator listed
    initDir,     \* the directory's entries at the start
    removed      \* how many run directories have been deleted

VARIABLES
    \* the skip-condition evaluator (_get_skipped)
    skip_config, \* config['not_if'] and config['only_if']
    match_list,  \* the list _evaluate_skip_conditions returned
    skip_ret,    \* what _get_skipped returned
    skip_status, \* the status entries _get_skipped appended
    spc          \* "input" before the evaluation, "done" after it

VARIABLES
    \* the run, its status file, and the TestRun object of each process
    status,      \* the status file: the states set, in order
    pc,          \* where each process is in the operation it has called
    build_only,  \* opts.build_only
    run_timeout, \* self.run_timeout
    now,         \* time.time()
    mtime,       \* st_mtime of run.log, None while it does not exist
    child,       \* each process's run script: none, running, exited, killed
    exitcode,    \* the code each run script exited with
    hung,        \* the run script will neither write nor exit any more
    timeout,     \* each run()'s local 'timeout'
    wait_start,  \* when each run()'s current proc.wait began
    started,     \* self.started
    finished,    \* self.finished
    result,      \* what each process's last call returned or raised
    op,          \* the method each process called last
    ncalls,      \* how many methods each process has called
    launches     \* how many run scripts have been launched

VARIABLES
    \* the run directory and what each TestRun object holds of it
    exists,      \* the run directory has been created
    config_file, \* the config file
    self_config, \* self.config
    skipped,     \* self.skipped
    build_origin, \* the build_origin link exists
    build_path,  \* the run's build directory: absent, copied, failed
    builds,      \* how many times the Build Subsystem's build was called
    links,       \* how many times the build_origin link was created
    config_writes, \* how many times the config file was written
    options_file \* the options file

VARIABLES
    \* the completion signal
    complete_file, \* the RUN_COMPLETE file
    deadline,    \* wait's local 'timeout' while wait sleeps: the time to give up
    wake,        \* the earliest end of a process's time.sleep, 0 out of it
    complete_val \* what the complete property returned to each process

VARIABLES
    config_lock  \* the process that holds the config lock file of the run, or 0

VARIABLES
    \* the results of the run
    results_file,  \* results.json
    self_results,  \* self._results of each TestRun object, NoResults for None
    results_val,   \* what gather_results or the results property returned
    run_result,    \* the argument of each process's last gather_results
    results_writes \* how many times results.json was written

allocVars == <<id_dir, lock, apc, ids, id_, ret, seen, initDir, removed>>
skipVars == <<skip_config, match_list, skip_ret, skip_status, spc>>

runVars == <<status, pc, build_only, run_timeout, now, mtime, child, exitcode,
             hung, timeout, wait_start, started, finished, result, op, ncalls,
             launches>>

lifeVars == <<exists, config_file, self_config, skipped, build_origin, build_path,
              builds, links, config_writes, options_file>>

waitVars == <<complete_file, deadline, wake, complete_val>>

lockVars == <<config_lock>>

resVars == <<results_file, self_results, results_val, run_result, results_writes>>

vars == <<allocVars, skipVars, runVars, lifeVars, waitVars, lockVars, resVars>>

\* what the operations of one component leave alone: the other components
AllocFrame == UNCHANGED <<skipVars, runVars, lifeVars, waitVars, lockVars, resVars>>
SkipFrame == UNCHANGED <<allocVars, runVars, lifeVars, waitVars, lockVars, resVars>>
RunFrame == UNCHANGED <<allocVars, skipVars, lifeVars, waitVars, lockVars, resVars>>
LifeFrame == UNCHANGED <<allocVars, skipVars, waitVars, lockVars, resVars>>
WaitFrame == UNCHANGED <<allocVars, skipVars, lifeVars, lockVars, resVars>>
LockFrame == UNCHANGED <<allocVars, skipVars, waitVars, resVars>>
ResFrame == UNCHANGED <<allocVars, skipVars, lifeVars, waitVars, lockVars>>


\* ------------------------------------------------- the components at rest
Allocators == 1..NumAllocators

\* The processes that hold a TestRun object of the one run.
Procs == 1..NumProcs


\* the allocators before any call
AllocIdle ==
    /\ id_dir = {} /\ initDir = {} /\ lock = 0 /\ removed = 0
    /\ apc = [p \in Allocators |-> "idle"]
    /\ ids = [p \in Allocators |-> <<>>]
    /\ id_ = [p \in Allocators |-> 0]
    /\ ret = [p \in Allocators |-> 0]
    /\ seen = [p \in Allocators |-> {}]

SkipIdle ==
    /\ skip_config = [not_if |-> <<>>, only_if |-> <<>>]
    /\ match_list = <<>>
    /\ skip_ret = FALSE
    /\ skip_status = <<>>
    /\ spc = "idle"

\* a created run that has not been run: no child, nothing started
NotRun ==
    /\ pc = [p \in Procs |-> "ready"]
    /\ now = 0
    /\ mtime = None
    /\ child = [p \in Procs |-> "none"]
    /\ exitcode = [p \in Procs |-> None]
    /\ hung = [p \in Procs |-> FALSE]
    /\ timeout = [p \in Procs |-> None]
    /\ wait_start = [p \in Procs |-> None]
    /\ started = [p \in Procs |-> None]
    /\ finished = [p \in Procs |-> None]
    /\ op = [p \in Procs |-> "none"]
    /\ ncalls = [p \in Procs |-> 0]
    /\ launches = 0
    /\ result = [p \in Procs |-> "None"]

\* pavilion.output.json_dump of a config: a JSON object with a member for
\* not_if and one for only_if, each an object with a member for every key
\* of the dict, in order, whose value is the array of the key's values
JsonArray(list) == [form |-> "array", items |-> list]
JsonObject(dict) ==
    [form |-> "object",
     members |-> [i \in 1..Len(dict) |->
                     [key |-> dict[i].key, val |-> JsonArray(dict[i].vals)]]]
output_json_dump(config) ==
    [form |-> "object",
     members |-> <<[key |-> "not_if", val |-> JsonObject(config.not_if)],
                   [key |-> "only_if", val |-> JsonObject(config.only_if)]>>]

\* json.load of a config file: a dict for every object, a list for every
\* array
MemberOf(object, key) ==
    object.members[CHOOSE i \in 1..Len(object.members) :
                      object.members[i].key = key].val
PyDict(object) ==
    [i \in 1..Len(object.members) |->
        [key |-> object.members[i].key, vals |-> object.members[i].val.items]]
json_load_config(text) ==
    [not_if |-> PyDict(MemberOf(text, "not_if")),
     only_if |-> PyDict(MemberOf(text, "only_if"))]

\* TestRunOptions.as_dict, and the options file before it is written
as_dict(build_only_, rebuild) ==
    [exists |-> TRUE, build_only |-> build_only_, rebuild |-> rebuild]
NoOptions == [exists |-> FALSE, build_only |-> FALSE, rebuild |-> FALSE]

\* self._results = None, and the text of a file that was never written
NoResults == [result |-> "unset"]
NoText == [form |-> "empty", members |-> <<>>]

\* no results.json, no results gathered
ResIdle ==
    /\ results_file = [exists |-> FALSE, text |-> NoText]
    /\ self_results = [p \in Procs |-> NoResults]
    /\ results_val = [p \in Procs |-> NoResults]
    /\ run_result = [p \in Procs |-> FALSE]
    /\ results_writes = 0

\* nothing built, no condition in the config
NotBuilt ==
    /\ ResIdle
    /\ config_lock = 0
    /\ config_writes = 0
    /\ config_file = output_json_dump([not_if |-> <<>>, only_if |-> <<>>])
    /\ self_config = [p \in Procs |-> [not_if |-> <<>>, only_if |-> <<>>]]
    /\ skipped = [p \in Procs |-> FALSE]
    /\ build_origin = FALSE
    /\ build_path = "absent"
    /\ builds = 0
    /\ links = 0

\* no run directory yet
LifeIdle == exists = FALSE /\ NotBuilt /\ options_file = NoOptions

\* the run directory of a run that was created and not built
CreatedRun ==
    /\ exists = TRUE
    /\ NotBuilt
    /\ options_file = as_dict(FALSE, FALSE)

\* no RUN_COMPLETE file, nobody waiting
WaitIdle ==
    /\ complete_file =
          [exists |-> FALSE, text |-> [form |-> "empty", members |-> <<>>]]
    /\ deadline = [p \in Procs |-> None]
    /\ wake = [p \in Procs |-> 0]
    /\ complete_val = [p \in Procs |-> None]

RunIdle ==
    /\ LifeIdle
    /\ WaitIdle
    /\ NotRun
    /\ status = <<>>
    /\ run_timeout = None
    /\ build_only = FALSE

\* the calls made so far by the first n processes, and whether the
\* processes may make one more
RECURSIVE CallsBy(_)
CallsBy(n) == IF n = 0 THEN 0 ELSE ncalls[n] + CallsBy(n - 1)
CallsLeft == CallsBy(NumProcs) < MaxCalls

\* a process between two calls may make one more
CanCall(p) == pc[p] = "ready" /\ CallsLeft

\* ======================================================== 4.1 create_id_dir

\* An entry of test_runs: a name that isdigit() (its integer value in num)
\* or not, and whether it is a directory.
DirEntry(n) == [digit |-> TRUE, num |-> n, kind |-> "dir"]
FileEntry(n) == [digit |-> TRUE, num |-> n, kind |-> "file"]
LockEntry == [digit |-> FALSE, num |-> 0, kind |-> "file"]

\* the run directories that exist
RunDirs == {n \in 0..(MaxInitId + NumAllocators) : DirEntry(n) \in id_dir}

\* ids = [int(id_) for id_ in listdir if id_.isdigit() and is_dir], as a set
ListedIds(entries) == {e.num : e \in {x \in entries : x.digit /\ x.kind = "dir"}}

\* ids.sort()
RECURSIVE SortedSeq(_)
SortedSeq(S) ==
    IF S = {} THEN <<>>
    ELSE LET m == CHOOSE x \in S : \A y \in S : x <= y
         IN  <<m>> \o SortedSeq(S \ {m})

SeqRange(s) == {s[i] : i \in 1..Len(s)}

\* the loop 'while id_ in ids: id_ += 1', from start
RECURSIVE WhileInIds(_, _)
WhileInIds(list, n) ==
    IF n \in SeqRange(list) THEN WhileInIds(list, n + 1) ELSE n

FirstUnusedFromZero(list) == WhileInIds(list, 0)
FirstUnusedCounter(list) == IF list = <<>> THEN 1 ELSE list[Len(list)] + 1
\* id_ = 1; while id_ in ids: id_ += 1
FirstUnused(list) == WhileInIds(list, 1)

\* LockFile.__enter__: an exclusive lock on test_runs/.lockfile; the lock
\* file is an entry of the directory while the lock is held.
LockFree(p) == lock = 0

create_id_dir_nolock(p) ==
    /\ apc[p] = "start"
    /\ apc' = [apc EXCEPT ![p] = "locked"]
    /\ UNCHANGED <<id_dir, lock, ids, id_, ret, seen, initDir, removed>>
    /\ AllocFrame

create_id_dir_lock(p) ==
    /\ apc[p] = "start"
    /\ LockFree(p)
    /\ lock' = p
    /\ id_dir' = id_dir \cup {LockEntry}
    /\ apc' = [apc EXCEPT ![p] = "locked"]
    /\ UNCHANGED <<ids, id_, ret, seen, initDir, removed>>
    /\ AllocFrame

\* LockFile(timeout=1): the lock is still held by another after the timeout
create_id_dir_lock_timeout(p) ==
    /\ apc[p] = "start"
    /\ lock # 0
    /\ apc' = [apc EXCEPT ![p] = "TimeoutError"]
    /\ UNCHANGED <<id_dir, lock, ids, id_, ret, seen, initDir, removed>>
    /\ AllocFrame

\* listdir, the two filters, int(), sort, and the search for the first
\* unused id
create_id_dir_scan(p) ==
    /\ apc[p] = "locked"
    /\ LET list == SortedSeq(ListedIds(id_dir))
       IN  /\ ids' = [ids EXCEPT ![p] = list]
           /\ id_' = [id_ EXCEPT ![p] = FirstUnused(list)]
    /\ seen' = [seen EXCEPT ![p] = RunDirs]
    /\ apc' = [apc EXCEPT ![p] = "scanned"]
    /\ UNCHANGED <<id_dir, lock, ret, initDir, removed>>
    /\ AllocFrame

\* LockFile.__exit__ releases the lock and removes the lock file, but only
\* the holder's
Unlocked(p, entries) == IF lock = p THEN entries \ {LockEntry} ELSE entries

\* path.mkdir(): fails (FileExistsError, an OSError) when the path exists;
\* the with block then releases the lock and the error propagates
PathNeverExists(p) == FALSE
PathExists(p) == \E e \in id_dir : e.digit /\ e.num = id_[p]

create_id_dir_mkdir(p) ==
    /\ apc[p] = "scanned"
    /\ IF PathExists(p)
         THEN /\ apc' = [apc EXCEPT ![p] = "OSError"]
              /\ id_dir' = Unlocked(p, id_dir)
              /\ lock' = IF lock = p THEN 0 ELSE lock
         ELSE /\ apc' = [apc EXCEPT ![p] = "made"]
              /\ id_dir' = id_dir \cup {DirEntry(id_[p])}
              /\ lock' = lock
    /\ UNCHANGED <<ids, id_, ret, seen, initDir, removed>>
    /\ AllocFrame

\* leaving the with block, then 'return id_, path'
create_id_dir_return(p) ==
    /\ apc[p] = "made"
    /\ id_dir' = Unlocked(p, id_dir)
    /\ lock' = IF lock = p THEN 0 ELSE lock
    /\ ret' = [ret EXCEPT ![p] = id_[p]]
    /\ apc' = [apc EXCEPT ![p] = "returned"]
    /\ UNCHANGED <<ids, id_, seen, initDir, removed>>
    /\ AllocFrame

\* a run directory is deleted (by anything; deleting takes no lock)
DeleteRun(n) ==
    /\ DirEntry(n) \in id_dir
    /\ removed < MaxDeletes
    /\ id_dir' = id_dir \ {DirEntry(n)}
    /\ removed' = removed + 1
    /\ UNCHANGED <<lock, apc, ids, id_, ret, seen, initDir>>
    /\ AllocFrame

AllocInit ==
    /\ SkipIdle /\ RunIdle
    /\ \E D \in SUBSET (1..MaxInitId) : \E F \in SUBSET ((1..MaxInitId) \ D) :
          /\ id_dir = {DirEntry(n) : n \in D} \cup {FileEntry(n) : n \in F}
          /\ initDir = id_dir
    /\ lock = 0
    /\ apc = [p \in Allocators |-> "start"]
    /\ ids = [p \in Allocators |-> <<>>]
    /\ id_ = [p \in Allocators |-> 0]
    /\ ret = [p \in Allocators |-> 0]
    /\ seen = [p \in Allocators |-> {}]
    /\ removed = 0

AllocNext ==
    \/ \E p \in Allocators : create_id_dir_lock(p)
    \/ \E p \in Allocators : create_id_dir_lock_timeout(p)
    \/ \E p \in Allocators : create_id_dir_scan(p)
    \/ \E p \in Allocators : create_id_dir_mkdir(p)
    \/ \E p \in Allocators : create_id_dir_return(p)
    \/ \E n \in 1..(MaxInitId + NumAllocators) : DeleteRun(n)

SpecAlloc == AllocInit /\ [][AllocNext]_vars

\* ------------------------------------------------------------ claims, 4.1
Returned == {p \in Allocators : apc[p] = "returned"}

\* C1: N allocators on an initially empty directory, none of which times
\* out on the lock: whenever some have returned, the ids returned so far are
\* pairwise distinct and are exactly 1..k, and once all are done every one
\* has returned, so the ids are exactly 1..N.
C1_UniqueDense ==
    (initDir = {} /\ removed = 0 /\ \A p \in Allocators : apc[p] # "TimeoutError")
    => /\ \A p, q \in Returned : p # q => ret[p] # ret[q]
       /\ {ret[p] : p \in Returned} = 1..Cardinality(Returned)
       /\ (\A p \in Allocators : apc[p] \in {"returned", "OSError"})
             => {ret[p] : p \in Allocators} = 1..NumAllocators

C1_Witness ==
    /\ initDir = {} /\ removed = 0
    /\ \A p \in Allocators : apc[p] = "returned"

\* C2: the step of a create_id_dir that creates the directory creates the
\* directory of the smallest positive integer that named no run directory
\* when the allocator listed them, and nothing else; the id returned is that
\* one. An id freed by a deletion is therefore taken again.
C2_FirstFit ==
    [][\A p \in Allocators :
         /\ (apc[p] = "scanned" /\ apc'[p] = "made")
               => /\ id_[p] >= 1
                  /\ id_[p] \notin seen[p]
                  /\ \A k \in 1..(id_[p] - 1) : k \in seen[p]
                  /\ DirEntry(id_[p]) \notin id_dir
                  /\ id_dir' = id_dir \cup {DirEntry(id_[p])}
         /\ (apc[p] = "made" /\ apc'[p] = "returned")
               => /\ ret'[p] = id_[p]
                  /\ RunDirs' = RunDirs]_vars

C2_Witness ==
    \E p \in Allocators :
        /\ apc[p] = "returned"
        /\ DirEntry(ret[p]) \in initDir
        /\ \E n \in RunDirs : n > ret[p]

\* C19: a create_id_dir that fails on the lock raises TimeoutError and one
\* that finds its path taken while it holds the lock raises OSError; either
\* way it returns no id and the run directories stay as they were.
C19_FailedAllocation ==
    [][\A p \in Allocators :
         /\ (apc[p] = "start" /\ apc'[p] = "TimeoutError")
               => (lock \notin {0, p} /\ ret'[p] = 0 /\ id_dir' = id_dir)
         /\ (apc[p] = "scanned" /\ apc'[p] # "scanned"
                /\ \E e \in id_dir : e.digit /\ e.num = id_[p])
               => (apc'[p] = "OSError" /\ ret'[p] = 0 /\ RunDirs' = RunDirs)
         /\ (apc'[p] # apc[p] /\ apc'[p] = "OSError")
               => (lock = p /\ ret'[p] = 0 /\ RunDirs' = RunDirs)]_vars

\* one allocator timed out on the lock and another found a file at its path
C19_Witness ==
    \E p, q \in Allocators :
        /\ apc[p] = "TimeoutError" /\ ret[p] = 0
        /\ apc[q] = "OSError" /\ ret[q] = 0 /\ FileEntry(id_[q]) \in id_dir

\* ============================================= 4.4 _evaluate_skip_conditions
\* Strings are sequences of characters; a pattern may hold the regular
\* expression characters "." and "$". A deferred string starts with the
\* resolver's mark.
DeferredMark == "!deferred!"
SkipKeys == {<<"a">>, <<"a", "b">>, <<DeferredMark, "a">>}
SkipValues == {<<"a">>, <<".", "b">>, <<"a", "$">>, <<DeferredMark, "a">>}

\* resolver.TestConfigResolver.was_deferred
was_deferred(str) == str # <<>> /\ Head(str) = DeferredMark

\* re.match(pattern, str): the pattern matches a prefix of str
RECURSIVE re_match(_, _)
re_match(pattern, str) ==
    IF pattern = <<>> THEN TRUE
    ELSE IF Head(pattern) = "$" THEN str = <<>> /\ re_match(Tail(pattern), str)
    ELSE /\ str # <<>>
         /\ (Head(pattern) = "." \/ Head(pattern) = Head(str))
         /\ re_match(Tail(pattern), Tail(str))

\* if not val.endswith('$'): val = val + '$'
Anchored(val) ==
    IF val # <<>> /\ val[Len(val)] = "$" THEN val ELSE Append(val, "$")

\* the body of 'for val in not_if[key]', over the values left
RECURSIVE NotIfValsFirstOnly(_, _)
NotIfValsFirstOnly(key, vals) ==
    IF vals = <<>> THEN <<>>
    ELSE IF was_deferred(Head(vals)) THEN NotIfValsFirstOnly(key, Tail(vals))
    ELSE IF re_match(Anchored(Head(vals)), key)
           THEN <<[cond |-> "not_if", key |-> key, val |-> Anchored(Head(vals))]>>
           ELSE NotIfValsFirstOnly(key, Tail(vals))

RECURSIVE NotIfVals(_, _)
NotIfVals(key, vals) ==
    IF vals = <<>> THEN <<>>
    ELSE IF was_deferred(Head(vals)) THEN NotIfVals(key, Tail(vals))
    ELSE (IF re_match(Anchored(Head(vals)), key)
            THEN <<[cond |-> "not_if", key |-> key, val |-> Anchored(Head(vals))]>>
            ELSE <<>>) \o NotIfVals(key, Tail(vals))

\* 'for key in not_if', over the entries left
RECURSIVE NotIfLoop(_)
NotIfLoop(not_if) ==
    IF not_if = <<>> THEN <<>>
    ELSE (IF was_deferred(Head(not_if).key) THEN <<>>
          ELSE NotIfVals(Head(not_if).key, Head(not_if).vals))
         \o NotIfLoop(Tail(not_if))

\* the body of 'for val in only_if[key]', over the values left: the final
\* value of 'match'
RECURSIVE OnlyIfValsNoDefer(_, _, _)
OnlyIfValsNoDefer(key, vals, match) ==
    IF vals = <<>> THEN match
    ELSE OnlyIfValsNoDefer(key, Tail(vals),
                           match \/ re_match(Anchored(Head(vals)), key))

RECURSIVE OnlyIfVals(_, _, _)
OnlyIfVals(key, vals, match) ==
    IF vals = <<>> THEN match
    ELSE IF was_deferred(Head(vals)) THEN TRUE
    ELSE OnlyIfVals(key, Tail(vals),
                    match \/ re_match(Anchored(Head(vals)), key))

\* 'for key in only_if', over the entries left
RECURSIVE OnlyIfLoop(_)
OnlyIfLoop(only_if) ==
    IF only_if = <<>> THEN <<>>
    ELSE (IF was_deferred(Head(only_if).key) THEN <<>>
          ELSE IF OnlyIfVals(Head(only_if).key, Head(only_if).vals, FALSE)
                 THEN <<>>
                 ELSE <<[cond |-> "only_if", key |-> Head(only_if).key,
                         vals |-> Head(only_if).vals]>>)
         \o OnlyIfLoop(Tail(only_if))

_evaluate_skip_conditions(config) ==
    NotIfLoop(config.not_if) \o OnlyIfLoop(config.only_if)

\* _get_skipped: evaluate, and on a skip set the status to COMPLETE
_get_skipped ==
    /\ spc = "input"
    /\ LET skip_reason_list == _evaluate_skip_conditions(skip_config)
       IN  /\ match_list' = skip_reason_list
           /\ skip_ret' = (Len(skip_reason_list) # 0)
           /\ skip_status' = IF Len(skip_reason_list) = 0 THEN skip_status
                             ELSE Append(skip_status, "COMPLETE")
    /\ spc' = "done"
    /\ UNCHANGED skip_config
    /\ SkipFrame

\* The condition sets: dicts in insertion order, as sequences of entries
\* [key, vals] with distinct keys. SkipConfigOf builds not_if from the keys
\* nk and only_if from the keys ok; entry number i takes the next lens[i]
\* values of flat.
RECURSIVE SumTo(_, _)
SumTo(lens, i) == IF i = 0 THEN 0 ELSE lens[i] + SumTo(lens, i - 1)

CondDict(keys, lens, flat, base) ==
    [i \in 1..Len(keys) |->
        [key |-> keys[i],
         vals |-> [j \in 1..lens[base + i] |-> flat[SumTo(lens, base + i - 1) + j]]]]

SkipConfigOf(nk, ok, lens, flat) ==
    [not_if |-> CondDict(nk, lens, flat, 0),
     only_if |-> CondDict(ok, lens, flat, Len(nk))]

Injective(f) == \A i, j \in DOMAIN f : i # j => f[i] # f[j]

SkipInit ==
    /\ AllocIdle /\ RunIdle
    /\ \E n \in 0..MaxKeys : \E m \in 0..(MaxKeys - n) :
       \E nk \in [1..n -> SkipKeys] : \E ok \in [1..m -> SkipKeys] :
       \E t \in 0..MaxVals : \E lens \in [1..(n + m) -> 0..t] :
       \E flat \in [1..t -> SkipValues] :
          /\ Injective(nk) /\ Injective(ok)
          /\ SumTo(lens, n + m) = t
          /\ skip_config = SkipConfigOf(nk, ok, lens, flat)
    /\ match_list = <<>>
    /\ skip_ret = FALSE
    /\ skip_status = <<>>
    /\ spc = "input"

SkipNext == _get_skipped

SpecSkip == SkipInit /\ [][SkipNext]_vars

\* ------------------------------------------------------------ claims, 4.4
\* value number j of entry number i of dict matches the entry's key
ValMatches(dict, i, j) == re_match(Anchored(dict[i].vals[j]), dict[i].key)

NoDeferred(dict) ==
    \A i \in 1..Len(dict) :
        /\ ~was_deferred(dict[i].key)
        /\ \A j \in 1..Len(dict[i].vals) : ~was_deferred(dict[i].vals[j])

\* the reasons of the list given for cond and key
ReasonsFor(cond, key) ==
    {n \in 1..Len(match_list) : match_list[n].cond = cond /\ match_list[n].key = key}

\* C7: without deferred entries, the evaluation gives one reason for every
\* matching (key, value) pair of not_if and one for every only_if key none of
\* whose values matches, and nothing else; the run is skipped iff some not_if
\* value matches or some only_if key has no matching value.
C7_SkipReasons ==
    (spc = "done" /\ NoDeferred(skip_config.not_if) /\ NoDeferred(skip_config.only_if))
    => LET ni == skip_config.not_if
           oi == skip_config.only_if
           NotIfPairs == {ij \in (1..Len(ni)) \X (1..MaxVals + 1) :
                            /\ ij[2] <= Len(ni[ij[1]].vals)
                            /\ ValMatches(ni, ij[1], ij[2])}
           OnlyIfFailed == {i \in 1..Len(oi) :
                              ~\E j \in 1..Len(oi[i].vals) : ValMatches(oi, i, j)}
       IN  /\ \A i \in 1..Len(ni) :
                Cardinality(ReasonsFor("not_if", ni[i].key))
                  = Cardinality({ij \in NotIfPairs : ij[1] = i})
           /\ \A i \in 1..Len(oi) :
                Cardinality(ReasonsFor("only_if", oi[i].key))
                  = IF i \in OnlyIfFailed THEN 1 ELSE 0
           /\ Len(match_list) = Cardinality(NotIfPairs) + Cardinality(OnlyIfFailed)
           /\ skip_ret = (Len(match_list) # 0)
           /\ skip_ret = (NotIfPairs # {} \/ OnlyIfFailed # {})

\* a not_if key with two matching values beside an only_if key without one
C7_Witness ==
    /\ spc = "done" /\ skip_ret
    /\ NoDeferred(skip_config.not_if) /\ NoDeferred(skip_config.only_if)
    /\ \E k \in SkipKeys : Cardinality(ReasonsFor("not_if", k)) = 2
    /\ \E k \in SkipKeys : Cardinality(ReasonsFor("only_if", k)) = 1

\* C8: a deferred not_if key or value gives no reason, a deferred only_if key
\* gives no reason, and an only_if key with a deferred value gives no reason
\* whatever its other values.
C8_DeferredAsymmetry ==
    spc = "done"
    => LET ni == skip_config.not_if
           oi == skip_config.only_if
       IN  /\ \A i \in 1..Len(ni) :
                /\ was_deferred(ni[i].key) => ReasonsFor("not_if", ni[i].key) = {}
                /\ Cardinality(ReasonsFor("not_if", ni[i].key))
                     <= Cardinality({j \in 1..Len(ni[i].vals) :
                                        ~was_deferred(ni[i].vals[j])})
           /\ \A n \in 1..Len(match_list) :
                match_list[n].cond = "not_if" => ~was_deferred(match_list[n].val)
           /\ \A i \in 1..Len(oi) :
                (\/ was_deferred(oi[i].key)
                 \/ \E j \in 1..Len(oi[i].vals) : was_deferred(oi[i].vals[j]))
                => ReasonsFor("only_if", oi[i].key) = {}

\* an only_if key whose first value does not match and whose second is
\* deferred, in a run that is not skipped
C8_Witness ==
    /\ spc = "done" /\ ~skip_ret
    /\ \E i \in 1..Len(skip_config.only_if) :
         LET e == skip_config.only_if[i]
         IN  /\ ~was_deferred(e.key)
             /\ Len(e.vals) = 2
             /\ ~was_deferred(e.vals[1])
             /\ ~re_match(Anchored(e.vals[1]), e.key)
             /\ was_deferred(e.vals[2])
    /\ \E i \in 1..Len(skip_config.not_if) :
         \E j \in 1..Len(skip_config.not_if[i].vals) :
            was_deferred(skip_config.not_if[i].vals[j])

\* ================================================================ 4.5 run
Last(s) == s[Len(s)]

\* status.set(state, ...): one entry appended to the run's status file
StatusSet(log, state) == Append(log, state)

\* 'if self.run_timeout < quiet_time': the output has been quiet too long
WallClockTimeout(rt, quiet_time) == TRUE
NeverTimeout(rt, quiet_time) == FALSE
QuietTooLong(rt, quiet_time) == rt < quiet_time

\* 'timeout = timeout - quiet_time'; every budget <= 0 makes proc.wait
\* expire at once, so the model keeps no budget below -BudgetFloor
NextBudget(budget, quiet_time) ==
    IF budget - quiet_time < 0 - BudgetFloor THEN 0 - BudgetFloor
    ELSE budget - quiet_time

\* 'if self.opts.build_only': the first test of run()
opts_build_only_unread == FALSE
opts_build_only == build_only

\* 'if result == 0: return True', and False in all other circumstances
RunResultAlwaysTrue(code) == "True"
RunResult(code) == IF code = 0 THEN "True" ELSE "False"

\* run() on a build_only test object: a RUN_ERROR status, and False
run_refused(p) ==
    /\ pc[p] = "ready"
    /\ CallsLeft
    /\ opts_build_only
    /\ status' = StatusSet(status, "RUN_ERROR")
    /\ result' = [result EXCEPT ![p] = "False"]
    /\ op' = [op EXCEPT ![p] = "run"]
    /\ ncalls' = [ncalls EXCEPT ![p] = @ + 1]
    /\ UNCHANGED <<pc, now, mtime, child, exitcode, hung, timeout, wait_start,
                   run_timeout, build_only, started, finished, launches>>
    /\ RunFrame

\* run() up to the first proc.wait: the statuses, the run log opened 'wb',
\* started, the child launched, timeout = self.run_timeout
run_launch(p) ==
    /\ pc[p] = "ready"
    /\ CallsLeft
    /\ ~opts_build_only
    /\ status' = StatusSet(StatusSet(StatusSet(status, "PREPPING_RUN"),
                                     "RUNNING"), "RUNNING")
    /\ mtime' = now
    /\ started' = [started EXCEPT ![p] = now]
    /\ child' = [child EXCEPT ![p] = "running"]
    /\ timeout' = [timeout EXCEPT ![p] = run_timeout]
    /\ wait_start' = [wait_start EXCEPT ![p] = now]
    /\ hung' = [hung EXCEPT ![p] = FALSE]
    /\ pc' = [pc EXCEPT ![p] = "waiting"]
    /\ op' = [op EXCEPT ![p] = "run"]
    /\ ncalls' = [ncalls EXCEPT ![p] = @ + 1]
    /\ launches' = launches + 1
    /\ UNCHANGED <<now, exitcode, run_timeout, build_only, finished, result>>
    /\ RunFrame

\* proc.wait(timeout=timeout) raises TimeoutExpired: the child has not
\* exited when the budget is over. The quiet time decides between killing
\* the child and waiting again with a smaller budget. (The local timeout
\* is None, and the wait unbounded, exactly when self.run_timeout is.)
wait_expired(p) ==
    /\ pc[p] = "waiting"
    /\ child[p] = "running"
    /\ run_timeout # None
    /\ now >= wait_start[p] + timeout[p]
    /\ LET quiet_time == now - mtime
       IN  IF QuietTooLong(run_timeout, quiet_time)
             THEN /\ child' = [child EXCEPT ![p] = "killed"]
                  /\ pc' = [pc EXCEPT ![p] = "killed"]
                  /\ UNCHANGED <<timeout, wait_start>>
             ELSE /\ timeout' = [timeout EXCEPT ![p] = NextBudget(timeout[p], quiet_time)]
                  /\ wait_start' = [wait_start EXCEPT ![p] = now]
                  /\ UNCHANGED <<child, pc>>
    /\ UNCHANGED <<status, now, mtime, exitcode, hung, run_timeout, build_only,
                   started, finished, result, op, ncalls, launches>>
    /\ RunFrame

\* 'self.status.set(STATES.RUN_TIMEOUT, msg)'
TimeoutStatusThenDone(log) == StatusSet(StatusSet(log, "RUN_TIMEOUT"), "RUN_DONE")
TimeoutStatus(log) == StatusSet(log, "RUN_TIMEOUT")

\* after proc.kill(): the RUN_TIMEOUT status
run_timeout_status(p) ==
    /\ pc[p] = "killed"
    /\ status' = TimeoutStatus(status)
    /\ pc' = [pc EXCEPT ![p] = "timeout_set"]
    /\ UNCHANGED <<now, mtime, child, exitcode, hung, timeout, wait_start,
                   run_timeout, build_only, started, finished, result, op,
                   ncalls, launches>>
    /\ RunFrame

\* then 'self.finished = datetime.datetime.now()'
run_timeout_finished(p) ==
    /\ pc[p] = "timeout_set"
    /\ finished' = [finished EXCEPT ![p] = now]
    /\ pc' = [pc EXCEPT ![p] = "timeout_finished"]
    /\ UNCHANGED <<status, now, mtime, child, exitcode, hung, timeout,
                   wait_start, run_timeout, build_only, started, result, op,
                   ncalls, launches>>
    /\ RunFrame

\* then 'raise TimeoutError(msg)'
run_timed_out(p) ==
    /\ pc[p] = "timeout_finished"
    /\ result' = [result EXCEPT ![p] = "TimeoutError"]
    /\ pc' = [pc EXCEPT ![p] = "ready"]
    /\ UNCHANGED <<status, now, mtime, child, exitcode, hung, timeout,
                   wait_start, run_timeout, build_only, started, finished, op,
                   ncalls, launches>>
    /\ RunFrame

\* proc.wait returns the exit code: finished, the RUN_DONE status, and
\* True iff the code is 0
wait_returned(p) ==
    /\ pc[p] = "waiting"
    /\ child[p] = "exited"
    /\ finished' = [finished EXCEPT ![p] = now]
    /\ status' = StatusSet(status, "RUN_DONE")
    /\ result' = [result EXCEPT ![p] = RunResult(exitcode[p])]
    /\ pc' = [pc EXCEPT ![p] = "ready"]
    /\ UNCHANGED <<now, mtime, child, exitcode, hung, timeout, wait_start,
                   run_timeout, build_only, started, op, ncalls, launches>>
    /\ RunFrame

\* the run script writes to the run log
ChildWrite(p) ==
    /\ child[p] = "running"
    /\ ~hung[p]
    /\ mtime # now
    /\ mtime' = now
    /\ UNCHANGED <<status, pc, now, child, exitcode, hung, timeout, wait_start,
                   run_timeout, build_only, started, finished, result, op, ncalls, launches>>
    /\ RunFrame

\* the run script exits
ExitCodes == {0, 1, 255}

ChildExit(p, code) ==
    /\ child[p] = "running"
    /\ ~hung[p]
    /\ child' = [child EXCEPT ![p] = "exited"]
    /\ exitcode' = [exitcode EXCEPT ![p] = code]
    /\ UNCHANGED <<status, pc, now, mtime, hung, timeout, wait_start,
                   run_timeout, build_only, started, finished, result, op, ncalls, launches>>
    /\ RunFrame

\* the run script hangs: from now on it neither writes nor exits. (Only
\* while the clock of the model leaves room for the timeout to run out.)
ChildHang(p) ==
    /\ child[p] = "running"
    /\ ~hung[p]
    /\ run_timeout # None
    /\ now + run_timeout + 1 <= MaxTime
    /\ hung' = [hung EXCEPT ![p] = TRUE]
    /\ UNCHANGED <<status, pc, now, mtime, child, exitcode, timeout, wait_start,
                   run_timeout, build_only, started, finished, result, op, ncalls, launches>>
    /\ RunFrame

\* time passes
Tick ==
    /\ now < MaxTime
    /\ now' = now + 1
    /\ UNCHANGED <<status, pc, mtime, child, exitcode, hung, timeout, wait_start,
                   run_timeout, build_only, started, finished, result, op, ncalls, launches>>
    /\ RunFrame

\* parse_timeout: None, or the int of a string of digits
RunTimeouts == {None} \cup 0..MaxTimeout

RunInit ==
    /\ AllocIdle /\ SkipIdle
    /\ CreatedRun /\ WaitIdle
    /\ NotRun
    /\ status = <<"CREATED", "CREATED">>
    /\ run_timeout \in RunTimeouts
    /\ build_only \in BOOLEAN

Runner == 1

RunNext ==
    \/ run_refused(Runner)
    \/ run_launch(Runner)
    \/ wait_expired(Runner)
    \/ run_timeout_status(Runner)
    \/ run_timeout_finished(Runner)
    \/ run_timed_out(Runner)
    \/ wait_returned(Runner)
    \/ ChildWrite(Runner)
    \/ \E code \in ExitCodes : ChildExit(Runner, code)
    \/ ChildHang(Runner)
    \/ Tick

SpecRun == RunInit /\ [][RunNext]_vars

\* time passes, and a process that can go on does
FairSpecRun ==
    /\ SpecRun
    /\ WF_vars(Tick)
    /\ WF_vars(wait_expired(Runner))
    /\ WF_vars(run_timeout_status(Runner))
    /\ WF_vars(run_timeout_finished(Runner))
    /\ WF_vars(run_timed_out(Runner))

\* ------------------------------------------------------------ claims, 4.5
\* C3: the child is killed only with a run timeout set and a run log that
\* has not been modified for at least that long, and RUN_TIMEOUT is set only
\* for a killed child; so a child that writes more often than the timeout,
\* or one run without a timeout, is never killed however long it runs.
C3_KillOnlyWhenQuiet ==
    [][\A p \in Procs :
         /\ (child[p] = "running" /\ child'[p] = "killed")
               => /\ run_timeout # None
                  /\ now - mtime >= run_timeout
         /\ (Len(status') > Len(status) /\ Last(status') = "RUN_TIMEOUT")
               => \E q \in Procs : child[q] = "killed"]_vars

\* a child still running, after at least one expired wait, when more than
\* twice the timeout has passed since the start
C3_Witness ==
    /\ run_timeout # None /\ run_timeout > 0
    /\ pc[Runner] = "waiting" /\ child[Runner] = "running"
    /\ timeout[Runner] < run_timeout
    /\ now - started[Runner] > 2 * run_timeout

\* C4: with a run timeout set, a child that hangs (stops writing to the run
\* log and does not exit) is eventually killed, and run() then sets the
\* RUN_TIMEOUT status and raises the timeout error.
C4_HungChildKilled ==
    \A p \in {Runner} :
        (hung[p] /\ pc[p] = "waiting" /\ run_timeout # None)
        ~> (/\ child[p] = "killed"
            /\ result[p] = "TimeoutError"
            /\ Last(status) = "RUN_TIMEOUT")

C4_Witness ==
    /\ hung[Runner] /\ child[Runner] = "killed"
    /\ result[Runner] = "TimeoutError"
    /\ Last(status) = "RUN_TIMEOUT"
    /\ now - started[Runner] > run_timeout + 1

\* ============================================== 4.6 the completion signal
\* one clock tick is one WAIT_INTERVAL
WAIT_INTERVAL == 1

\* the RUN_COMPLETE file: whether it exists, and its text as json.load
\* takes it: empty, a part of a dump, malformed, or a JSON value that is an
\* object (with its members in order), an array, or a scalar
EmptyText == [form |-> "empty", members |-> <<>>]
NoFile == [exists |-> FALSE, text |-> EmptyText]
Truncated == [exists |-> TRUE, text |-> EmptyText]
json_dump(stamp) ==
    [form |-> "object", members |-> <<[key |-> "complete", val |-> stamp]>>]

\* json.load raises JSONDecodeError (a ValueError) on a text that is no
\* JSON value
JSONDecodeError(text) == text.form \in {"empty", "partial", "malformed"}

\* dict.get of the dict json.load makes of an object: of members with one
\* name the last counts, and a name that is missing gives None
dict_get(members, key) ==
    IF \E i \in 1..Len(members) : members[i].key = key
      THEN LET last == CHOOSE i \in 1..Len(members) :
                          /\ members[i].key = key
                          /\ \A j \in 1..Len(members) :
                                members[j].key = key => j <= i
           IN  members[last].val
      ELSE None

\* the complete property raises AttributeError, which its except clause
\* does not name, when json.load returns a value without a get method
complete_raises(file) ==
    /\ file.exists
    /\ ~JSONDecodeError(file.text)
    /\ file.text.form # "object"

\* the complete property when it does not raise: None when the file is
\* absent or json.load fails on it, else data.get('complete')
complete_none(file) == None
complete(file) ==
    IF ~file.exists THEN None
    ELSE IF JSONDecodeError(file.text) THEN None
    ELSE dict_get(file.text.members, "complete")

\* set_run_complete, open('w'): the file is created or truncated
set_run_complete_open(p) ==
    /\ CanCall(p)
    /\ complete_file' = Truncated
    /\ pc' = [pc EXCEPT ![p] = "writing"]
    /\ op' = [op EXCEPT ![p] = "set_run_complete"]
    /\ ncalls' = [ncalls EXCEPT ![p] = @ + 1]
    /\ result' = [result EXCEPT ![p] = "None"]
    /\ UNCHANGED <<status, build_only, run_timeout, now, mtime, child, exitcode,
                   hung, timeout, wait_start, started, finished, launches>>
    /\ UNCHANGED <<deadline, wake, complete_val>>
    /\ WaitFrame

\* set_run_complete, json.dump and the close of the file: the time written
set_run_complete_dump(p) ==
    /\ pc[p] = "writing"
    /\ complete_file' = [exists |-> TRUE, text |-> json_dump(now)]
    /\ pc' = [pc EXCEPT ![p] = "ready"]
    /\ UNCHANGED <<status, build_only, run_timeout, now, mtime, child, exitcode,
                   hung, timeout, wait_start, started, finished, result, op,
                   ncalls, launches>>
    /\ UNCHANGED <<deadline, wake, complete_val>>
    /\ WaitFrame

\* a read of the complete property
read_complete(p) ==
    /\ CanCall(p)
    /\ IF complete_raises(complete_file)
         THEN /\ result' = [result EXCEPT ![p] = "AttributeError"]
              /\ UNCHANGED complete_val
         ELSE /\ result' = [result EXCEPT ![p] = "None"]
              /\ complete_val' =
                    [complete_val EXCEPT ![p] = complete(complete_file)]
    /\ op' = [op EXCEPT ![p] = "complete"]
    /\ ncalls' = [ncalls EXCEPT ![p] = @ + 1]
    /\ UNCHANGED <<status, pc, build_only, run_timeout, now, mtime, child,
                   exitcode, hung, timeout, wait_start, started, finished,
                   launches>>
    /\ UNCHANGED <<complete_file, deadline, wake>>
    /\ WaitFrame

\* one pass of wait's loop up to the sleep, with wait's local 'timeout':
\* return if complete, else sleep
WaitPoll(p, timeout_) ==
    IF complete_raises(complete_file)
      THEN /\ pc' = [pc EXCEPT ![p] = "ready"]
           /\ result' = [result EXCEPT ![p] = "AttributeError"]
           /\ deadline' = [deadline EXCEPT ![p] = None]
           /\ UNCHANGED wake
    ELSE IF complete(complete_file) # None
      THEN /\ pc' = [pc EXCEPT ![p] = "ready"]
           /\ result' = [result EXCEPT ![p] = "returned"]
           /\ deadline' = [deadline EXCEPT ![p] = None]
           /\ UNCHANGED wake
      ELSE /\ pc' = [pc EXCEPT ![p] = "sleeping"]
           /\ result' = [result EXCEPT ![p] = "None"]
           /\ deadline' = [deadline EXCEPT ![p] = timeout_]
           /\ wake' = [wake EXCEPT ![p] = now + WAIT_INTERVAL]

\* wait(timeout): 'timeout = time.time() + timeout' and the first pass
wait(p, t) ==
    /\ CanCall(p)
    /\ WaitPoll(p, IF t = None THEN None ELSE now + t)
    /\ op' = [op EXCEPT ![p] = "wait"]
    /\ ncalls' = [ncalls EXCEPT ![p] = @ + 1]
    /\ UNCHANGED <<status, build_only, run_timeout, now, mtime, child, exitcode,
                   hung, timeout, wait_start, started, finished, launches>>
    /\ UNCHANGED <<complete_file, complete_val>>
    /\ WaitFrame

\* 'timeout is not None and time.time() > timeout'
WaitExpiredNoneToo(p) == now > deadline[p]
WaitExpired(p) == deadline[p] # None /\ now > deadline[p]

\* the end of time.sleep(WAIT_INTERVAL): TimeoutError, or the loop again.
\* The last value of the clock stands for every later time, so a sleep that
\* would end after it can end at it.
wait_slept(p) ==
    /\ pc[p] = "sleeping"
    /\ (now >= wake[p] \/ now = MaxTime)
    /\ IF WaitExpired(p)
         THEN /\ pc' = [pc EXCEPT ![p] = "ready"]
              /\ result' = [result EXCEPT ![p] = "TimeoutError"]
              /\ deadline' = [deadline EXCEPT ![p] = None]
         ELSE /\ pc' = [pc EXCEPT ![p] = "polling"]
              /\ UNCHANGED <<result, deadline>>
    /\ wake' = [wake EXCEPT ![p] = 0]
    /\ UNCHANGED <<status, build_only, run_timeout, now, mtime, child, exitcode,
                   hung, timeout, wait_start, started, finished, op, ncalls,
                   launches>>
    /\ UNCHANGED <<complete_file, complete_val>>
    /\ WaitFrame

\* a later pass of the loop
wait_poll(p) ==
    /\ pc[p] = "polling"
    /\ WaitPoll(p, deadline[p])
    /\ UNCHANGED <<status, build_only, run_timeout, now, mtime, child, exitcode,
                   hung, timeout, wait_start, started, finished, op, ncalls,
                   launches>>
    /\ UNCHANGED <<complete_file, complete_val>>
    /\ WaitFrame

\* the timeouts wait is called with, in clock ticks
WaitTimeouts == {None} \cup 0..MaxTimeout

WaitInit ==
    /\ AllocIdle /\ SkipIdle
    /\ CreatedRun
    /\ NotRun
    /\ WaitIdle
    /\ status = <<"CREATED", "CREATED">>
    /\ run_timeout = None
    /\ build_only = FALSE

\* the process that runs the test marks it complete, the others wait
Waiters == Procs \ {Runner}

WaitNext ==
    \/ set_run_complete_open(Runner)
    \/ set_run_complete_dump(Runner)
    \/ \E p \in Waiters : read_complete(p)
    \/ \E p \in Waiters : \E t \in WaitTimeouts : wait(p, t)
    \/ \E p \in Waiters : wait_slept(p)
    \/ \E p \in Waiters : wait_poll(p)
    \/ Tick

SpecWait == WaitInit /\ [][WaitNext]_vars

\* the marker written and waited for, without reads of the property
\* outside wait
FairWaitNext ==
    \/ set_run_complete_open(Runner)
    \/ set_run_complete_dump(Runner)
    \/ \E p \in Waiters : \E t \in WaitTimeouts : wait(p, t)
    \/ \E p \in Waiters : wait_slept(p)
    \/ \E p \in Waiters : wait_poll(p)
    \/ Tick

\* time passes, a set_run_complete that has opened the file writes it, and
\* a waiting process goes on
FairSpecWait ==
    /\ WaitInit /\ [][FairWaitNext]_vars
    /\ WF_vars(Tick)
    /\ WF_vars(set_run_complete_dump(Runner))
    /\ \A p \in Waiters : WF_vars(wait_slept(p)) /\ WF_vars(wait_poll(p))

\* ------------------------------------------------------------ claims, 4.6
Written == complete_file.exists /\ complete_file.text.form = "object"
WrittenStamp == complete_file.text.members[1].val

\* C10: with the marker written (set_run_complete has finished), a call of
\* wait(t), for any timeout t >= 0 or None, returns without a TimeoutError,
\* and a read of the complete property returns the time that was written.
C10_CompletionRoundTrip ==
    [][\A p \in Procs :
         (Written /\ ncalls'[p] # ncalls[p])
            => /\ op'[p] = "wait"
                    => (result'[p] = "returned" /\ pc'[p] = "ready")
               /\ op'[p] = "complete"
                    => complete_val'[p] = WrittenStamp]_vars

\* a wait that returned within the clock tick of its call, which it does
\* only from its first pass, after a read that got the time written
C10_Witness ==
    /\ Written /\ WrittenStamp = 0 /\ now = 0
    /\ \E p \in Procs :
          /\ op[p] = "wait" /\ result[p] = "returned"
          /\ complete_val[p] = WrittenStamp

\* C13: wait raises TimeoutError only with a timeout that is not None and
\* after the deadline has passed, and returns only on a readable marker; a
\* wait(None) that is blocked when the marker is written returns in the end.
InWait(p) == pc[p] \in {"sleeping", "polling"}
C13_WaitBlocksUntilComplete ==
    /\ [][\A p \in Procs :
            /\ (InWait(p) /\ pc'[p] = "ready" /\ result'[p] = "TimeoutError")
                  => (deadline[p] # None /\ now > deadline[p])
            /\ (pc'[p] = "ready" /\ result'[p] = "returned"
                   /\ (InWait(p) \/ ncalls'[p] # ncalls[p]))
                  => complete(complete_file) # None]_vars
    /\ \A p \in Waiters :
          (InWait(p) /\ deadline[p] = None /\ Written)
             ~> (pc[p] = "ready" /\ result[p] = "returned")

\* a wait(None) asleep past the end of its sleep, with the marker written
\* while it slept
C13_Witness ==
    \E p \in Waiters :
        /\ pc[p] = "sleeping" /\ deadline[p] = None
        /\ Written /\ WrittenStamp >= 2 /\ now >= wake[p]

\* ---------------------------------------- the complete property alone
\* The marker files it is read on: absent, and every form of text, the
\* objects with up to MaxMembers members of these names and values.
MemberNames == {"complete", "other"}
MemberVals == {None} \cup 0..MaxTimeout
Members == [key : MemberNames, val : MemberVals]
MarkerTexts ==
    {[form |-> f, members |-> <<>>] :
        f \in {"empty", "partial", "malformed", "array", "scalar"}}
    \cup {[form |-> "object", members |-> m] :
             m \in UNION {[1..n -> Members] : n \in 0..MaxMembers}}
MarkerFiles == {NoFile} \cup {[exists |-> TRUE, text |-> t] : t \in MarkerTexts}

MarkerInit ==
    /\ AllocIdle /\ SkipIdle
    /\ CreatedRun
    /\ NotRun
    /\ deadline = [p \in Procs |-> None]
    /\ wake = [p \in Procs |-> 0]
    /\ complete_val = [p \in Procs |-> None]
    /\ complete_file \in MarkerFiles
    /\ status = <<"CREATED", "CREATED">>
    /\ run_timeout = None
    /\ build_only = FALSE

MarkerNext == \E p \in Procs : read_complete(p)

SpecMarker == MarkerInit /\ [][MarkerNext]_vars

\* C12: the complete property never raises; it returns the stored
\* timestamp or None, and None for every absent, partial or malformed marker.
C12_AccessorNeverFails ==
    \A p \in Procs :
        op[p] = "complete"
           => /\ result[p] = "None"
              /\ complete_val[p] \in {None, complete(complete_file)}
              /\ (~complete_file.exists \/ JSONDecodeError(complete_file.text))
                    => complete_val[p] = None

\* ================================================= 5 the config lock
\* LockFile.unlock, in the finally clause: the lock is released if the
\* caller holds it
unlock_never(p) == config_lock
unlock(p) == IF config_lock = p THEN 0 ELSE config_lock

ConfigFns == {"_save_config", "_load_config"}

\* config_lock.lock(): the lock is taken
config_lock_lock(p, fn) ==
    /\ CanCall(p)
    /\ config_lock = 0
    /\ config_lock' = p
    /\ pc' = [pc EXCEPT ![p] = "config_locked"]
    /\ op' = [op EXCEPT ![p] = fn]
    /\ ncalls' = [ncalls EXCEPT ![p] = @ + 1]
    /\ result' = [result EXCEPT ![p] = "None"]
    /\ UNCHANGED <<status, build_only, run_timeout, now, mtime, child, exitcode,
                   hung, timeout, wait_start, started, finished, launches>>
    /\ UNCHANGED lifeVars
    /\ LockFrame

\* config_lock.lock(): the lock is held by another for too long, lock()
\* raises and the finally clause is next
config_lock_timeout(p, fn) ==
    /\ CanCall(p)
    /\ config_lock # 0
    /\ pc' = [pc EXCEPT ![p] = "config_finally"]
    /\ op' = [op EXCEPT ![p] = fn]
    /\ ncalls' = [ncalls EXCEPT ![p] = @ + 1]
    /\ result' = [result EXCEPT ![p] = "TimeoutError"]
    /\ UNCHANGED <<status, build_only, run_timeout, now, mtime, child, exitcode,
                   hung, timeout, wait_start, started, finished, launches>>
    /\ UNCHANGED lifeVars
    /\ UNCHANGED config_lock
    /\ LockFrame

\* How the with block under the lock ends: "ok"; "open", when
\* config_path.open raises OSError; "dump", when json_dump raises TypeError
\* or OSError after open('w') has truncated the file
CriticalOutcomes == {"ok", "open", "dump"}

\* what a json_dump that raised leaves in the file opened with 'w': nothing,
\* or the text up to the value that could not be written
FailedDump(old, form) == [form |-> form, members |-> <<>>]

\* the with block under the lock: the config dumped or loaded, or an
\* OSError or TypeError in it, raised again as TestRunError; json.load's
\* JSONDecodeError on a file that is no JSON text is a ValueError, which no
\* except clause catches; the finally clause is next
config_critical(p, outcome) ==
    /\ pc[p] = "config_locked"
    /\ IF op[p] = "_save_config"
         THEN /\ UNCHANGED self_config
              /\ IF outcome = "ok"
                   THEN /\ config_file' = output_json_dump(self_config[p])
                        /\ config_writes' = config_writes + 1
                        /\ result' = [result EXCEPT ![p] = "None"]
                   ELSE /\ result' = [result EXCEPT ![p] = "TestRunError"]
                        /\ IF outcome = "open"
                             THEN UNCHANGED <<config_file, config_writes>>
                             ELSE /\ \E form \in {"empty", "partial"} :
                                        config_file' = FailedDump(config_file, form)
                                  /\ config_writes' = config_writes
         ELSE /\ outcome # "dump"
              /\ UNCHANGED <<config_file, config_writes>>
              /\ IF outcome = "open"
                   THEN /\ result' = [result EXCEPT ![p] = "TestRunError"]
                        /\ UNCHANGED self_config
                   ELSE IF JSONDecodeError(config_file)
                   THEN /\ result' = [result EXCEPT ![p] = "JSONDecodeError"]
                        /\ UNCHANGED self_config
                   ELSE /\ result' = [result EXCEPT ![p] = "None"]
                        /\ self_config' =
                              [self_config EXCEPT ![p] = json_load_config(config_file)]
    /\ pc' = [pc EXCEPT ![p] = "config_finally"]
    /\ UNCHANGED <<status, build_only, run_timeout, now, mtime, child, exitcode,
                   hung, timeout, wait_start, started, finished, op, ncalls,
                   launches>>
    /\ UNCHANGED <<exists, skipped, build_origin, build_path, builds, links,
                   options_file>>
    /\ UNCHANGED config_lock
    /\ LockFrame

\* finally: config_lock.unlock(), then the return or the raise
config_lock_unlock(p) ==
    /\ pc[p] = "config_finally"
    /\ config_lock' = unlock(p)
    /\ pc' = [pc EXCEPT ![p] = "ready"]
    /\ UNCHANGED <<status, build_only, run_timeout, now, mtime, child, exitcode,
                   hung, timeout, wait_start, started, finished, result, op,
                   ncalls, launches>>
    /\ UNCHANGED lifeVars
    /\ LockFrame

\* the allocators on a directory that is empty or holds a file named 1,
\* and the processes of one run in it
LockInit ==
    /\ SkipIdle /\ WaitIdle
    /\ CreatedRun
    /\ NotRun
    /\ status = <<"CREATED", "CREATED">>
    /\ run_timeout = None
    /\ build_only = FALSE
    /\ id_dir \in {{}, {FileEntry(1)}}
    /\ initDir = id_dir
    /\ lock = 0
    /\ apc = [p \in Allocators |-> "start"]
    /\ ids = [p \in Allocators |-> <<>>]
    /\ id_ = [p \in Allocators |-> 0]
    /\ ret = [p \in Allocators |-> 0]
    /\ seen = [p \in Allocators |-> {}]
    /\ removed = 0

\* the processes of the run are allocators as well: Procs is a subset of
\* Allocators
AllocDone ==
    \A p \in Procs : apc[p] \in {"returned", "OSError", "TimeoutError"}

\* Each process allocates a directory before it saves or loads a config.
\* The two locks are on different files and no operation holds both, so
\* the operations on the config lock are taken after those on the other.
LockNext ==
    \/ \E p \in Procs : create_id_dir_lock(p)
    \/ \E p \in Procs : create_id_dir_lock_timeout(p)
    \/ \E p \in Procs : create_id_dir_scan(p)
    \/ \E p \in Procs : create_id_dir_mkdir(p)
    \/ \E p \in Procs : create_id_dir_return(p)
    \/ AllocDone /\ \E p \in Procs : \E fn \in ConfigFns : config_lock_lock(p, fn)
    \/ AllocDone /\ \E p \in Procs : \E fn \in ConfigFns : config_lock_timeout(p, fn)
    \/ AllocDone /\ \E p \in Procs : \E outcome \in CriticalOutcomes :
                         config_critical(p, outcome)
    \/ AllocDone /\ \E p \in Procs : config_lock_unlock(p)

SpecLock == LockInit /\ [][LockNext]_vars

\* --------------------------------------------------------------- claims, 5
\* C18: a process that has left create_id_dir, _save_config or
\* _load_config, by a return or by an exception, does not hold the lock, and
\* with no process inside one of them the lock is free and its file gone.
C18_LockReleased ==
    /\ \A p \in Allocators :
          apc[p] \in {"returned", "OSError", "TimeoutError"} => lock # p
    /\ (\A p \in Allocators : apc[p] \notin {"locked", "scanned", "made"})
          => (lock = 0 /\ LockEntry \notin id_dir)
    /\ \A p \in Procs : pc[p] = "ready" => config_lock # p
    /\ (\A p \in Procs : pc[p] = "ready") => config_lock = 0

\* every exit taken: an allocator timed out and one failed on mkdir, a
\* process failed under the config lock and one timed out on it, and both
\* locks are free
C18_Witness ==
    /\ \E p, q \in Allocators : apc[p] = "TimeoutError" /\ apc[q] = "OSError"
    /\ \E p, q \in Procs :
          /\ pc[p] = "ready" /\ result[p] = "TestRunError"
          /\ pc[q] = "ready" /\ result[q] = "TimeoutError"
    /\ lock = 0 /\ config_lock = 0

\* C31: a _save_config that raises (lock timeout, I/O error, a value that
\* cannot be written) leaves the config file as it was, a complete config
\* that loads.
C31_FailedSaveKeepsConfig ==
    [][\A p \in Procs :
         (op'[p] = "_save_config" /\ result'[p] \in {"TestRunError", "TimeoutError"}
            /\ (pc[p] = "config_locked" \/ ncalls'[p] # ncalls[p]))
            => (config_file' = config_file /\ ~JSONDecodeError(config_file'))]_vars

\* ===================================================== 4.7 the orchestrator
\* The configs a run is created with: no condition, a not_if that matches,
\* an only_if whose only value is deferred, an only_if that fails.
NoConditions == [not_if |-> <<>>, only_if |-> <<>>]
LifeConfigs ==
    {NoConditions,
     [not_if |-> <<[key |-> <<"a">>, vals |-> <<<<"a">>>>]>>, only_if |-> <<>>],
     [not_if |-> <<>>,
      only_if |-> <<[key |-> <<"a">>, vals |-> <<<<DeferredMark, "a">>>>]>>],
     [not_if |-> <<>>,
      only_if |-> <<[key |-> <<"a", "b">>, vals |-> <<<<"a">>>>]>>]}

\* resolver.TestConfigResolver.resolve_deferred: every deferred string of
\* the conditions replaced by what it resolves to
Undeferred(str, to) == IF was_deferred(str) THEN to ELSE str

ResolvedDict(dict, to) ==
    [i \in 1..Len(dict) |->
        [key |-> Undeferred(dict[i].key, to),
         vals |-> [j \in 1..Len(dict[i].vals) |-> Undeferred(dict[i].vals[j], to)]]]

resolve_deferred(config, to) ==
    [not_if |-> ResolvedDict(config.not_if, to),
     only_if |-> ResolvedDict(config.only_if, to)]

ResolvedStrings == {v \in SkipValues : ~was_deferred(v)}

\* _get_skipped on a config: whether it skips, and the status file after it
Skips(config) == Len(_evaluate_skip_conditions(config)) # 0
StatusAfterSkip(log, config) ==
    IF Skips(config) THEN StatusSet(log, "COMPLETE") ELSE log

\* a new TestRun object: the fields __init__ sets before it returns
NewObject(p) ==
    /\ started' = [started EXCEPT ![p] = None]
    /\ finished' = [finished EXCEPT ![p] = None]
    /\ pc' = [pc EXCEPT ![p] = "ready"]
    /\ ncalls' = [ncalls EXCEPT ![p] = @ + 1]


\* the status file after the two status.set(STATES.CREATED, ...) of a
\* creation
NoCreatedStatus(log) == log
CreatedStatus(log) == StatusSet(StatusSet(log, "CREATED"), "CREATED")

\* TestRun(pav_cfg, config): the run directory, the config and options
\* files, the two CREATED statuses, and the skip evaluation
create(p, cfg) ==
    /\ ~exists
    /\ pc[p] = "none"
    /\ CallsLeft
    /\ exists' = TRUE
    /\ config_file' = output_json_dump(cfg)
    /\ config_writes' = config_writes + 1
    /\ options_file' = as_dict(build_only, FALSE)
    /\ self_config' = [self_config EXCEPT ![p] = cfg]
    /\ status' = StatusAfterSkip(CreatedStatus(status), cfg)
    /\ skipped' = [skipped EXCEPT ![p] = Skips(cfg)]
    /\ NewObject(p)
    /\ op' = [op EXCEPT ![p] = "create"]
    /\ result' = [result EXCEPT ![p] = "None"]
    /\ UNCHANGED <<build_only, run_timeout, now, mtime, child, exitcode, hung,
                   timeout, wait_start, launches>>
    /\ UNCHANGED <<build_origin, build_path, builds, links>>
    /\ LifeFrame

\* TestRun.load(pav_cfg, test_id): the config read back, a new object, and
\* the skip evaluation at the end of __init__
load(p) ==
    /\ exists
    /\ pc[p] \in {"none", "ready"}
    /\ CallsLeft
    /\ LET loaded == json_load_config(config_file)
       IN  /\ self_config' = [self_config EXCEPT ![p] = loaded]
           /\ status' = StatusAfterSkip(status, loaded)
           /\ skipped' = [skipped EXCEPT ![p] = Skips(loaded)]
    /\ NewObject(p)
    /\ op' = [op EXCEPT ![p] = "load"]
    /\ result' = [result EXCEPT ![p] = "None"]
    /\ UNCHANGED <<build_only, run_timeout, now, mtime, child, exitcode, hung,
                   timeout, wait_start, launches>>
    /\ UNCHANGED <<exists, config_file, build_origin, build_path, builds, links,
                   config_writes, options_file>>
    /\ LifeFrame

\* what finalize saves: self.config, after resolve_deferred was assigned
\* to it
UnresolvedConfig(resolved, old) == old
SavedConfig(resolved, old) == resolved

\* finalize(var_man): the deferred entries resolved, the config saved, and
\* the skip evaluated again unless the object is skipped already
finalize(p, to) ==
    /\ CanCall(p)
    /\ LET resolved == resolve_deferred(self_config[p], to)
       IN  /\ self_config' = [self_config EXCEPT ![p] = resolved]
           /\ config_file' = output_json_dump(SavedConfig(resolved, self_config[p]))
           /\ config_writes' = config_writes + 1
           /\ IF skipped[p]
                THEN UNCHANGED <<skipped, status>>
                ELSE /\ skipped' = [skipped EXCEPT ![p] = Skips(resolved)]
                     /\ status' = StatusAfterSkip(status, resolved)
    /\ ncalls' = [ncalls EXCEPT ![p] = @ + 1]
    /\ op' = [op EXCEPT ![p] = "finalize"]
    /\ result' = [result EXCEPT ![p] = "None"]
    /\ UNCHANGED <<pc, build_only, run_timeout, now, mtime, child, exitcode, hung,
                   timeout, wait_start, started, finished, launches>>
    /\ UNCHANGED <<exists, build_origin, build_path, builds, links, options_file>>
    /\ LifeFrame

\* 'if self.build_origin_path.exists()': the guard of build()
OriginNeverExists == FALSE
OriginExists == build_origin

\* build(): the guard; a second call raises RuntimeError
build_check(p) ==
    /\ CanCall(p)
    /\ IF OriginExists
         THEN /\ result' = [result EXCEPT ![p] = "RuntimeError"]
              /\ pc' = pc
         ELSE /\ result' = [result EXCEPT ![p] = "None"]
              /\ pc' = [pc EXCEPT ![p] = "building"]
    /\ ncalls' = [ncalls EXCEPT ![p] = @ + 1]
    /\ op' = [op EXCEPT ![p] = "build"]
    /\ UNCHANGED <<status, build_only, run_timeout, now, mtime, child, exitcode,
                   hung, timeout, wait_start, started, finished, launches>>
    /\ UNCHANGED <<exists, config_file, self_config, skipped, build_origin, build_path,
                   builds, links, config_writes, options_file>>
    /\ LifeFrame

\* self.builder.build(cancel_event): the Build Subsystem builds, setting
\* the BUILDING status, and BUILD_ERROR when it fails
builder_build(p, ok) ==
    /\ pc[p] = "building"
    /\ builds' = builds + 1
    /\ status' = IF ok THEN StatusSet(status, "BUILDING")
                 ELSE StatusSet(StatusSet(status, "BUILDING"), "BUILD_ERROR")
    /\ pc' = [pc EXCEPT ![p] = IF ok THEN "built" ELSE "build_failed"]
    /\ UNCHANGED <<build_only, run_timeout, now, mtime, child, exitcode, hung,
                   timeout, wait_start, started, finished, result, op, ncalls,
                   launches>>
    /\ UNCHANGED <<exists, config_file, self_config, skipped, build_origin, build_path,
                   links, config_writes, options_file>>
    /\ LifeFrame

\* after a successful build: build_origin_path.symlink_to(builder.path),
\* which raises FileExistsError when the link exists, then copy_build
build_link(p, copied) ==
    /\ pc[p] = "built"
    /\ IF build_origin
         THEN /\ result' = [result EXCEPT ![p] = "FileExistsError"]
              /\ UNCHANGED <<build_origin, build_path, links>>
         ELSE /\ build_origin' = TRUE
              /\ links' = links + 1
              /\ build_path' = IF copied THEN "copied" ELSE build_path
              /\ result' = [result EXCEPT ![p] = IF copied THEN "True" ELSE "False"]
    /\ pc' = [pc EXCEPT ![p] = "ready"]
    /\ UNCHANGED <<status, build_only, run_timeout, now, mtime, child, exitcode,
                   hung, timeout, wait_start, started, finished, op, ncalls,
                   launches>>
    /\ UNCHANGED <<exists, config_file, self_config, skipped, builds,
                   config_writes, options_file>>
    /\ LifeFrame

\* after a failed build: builder.fail_path.rename(self.build_path), which
\* raises OSError when the build path holds a directory already
build_fail_rename(p) ==
    /\ pc[p] = "build_failed"
    /\ IF build_path # "absent"
         THEN /\ result' = [result EXCEPT ![p] = "OSError"]
              /\ UNCHANGED build_path
         ELSE /\ build_path' = "failed"
              /\ result' = [result EXCEPT ![p] = "False"]
    /\ pc' = [pc EXCEPT ![p] = "ready"]
    /\ UNCHANGED <<status, build_only, run_timeout, now, mtime, child, exitcode,
                   hung, timeout, wait_start, started, finished, op, ncalls,
                   launches>>
    /\ UNCHANGED <<exists, config_file, self_config, skipped, build_origin, builds,
                   links, config_writes, options_file>>
    /\ LifeFrame

\* 'if not build_opts_path.exists()': the guard of TestRunOptions.save
OptionsNeverExist == FALSE
OptionsExist == options_file.exists

\* TestRunOptions(...).save(test) on a run: the options written if the file
\* is not there, RuntimeError if it is
opts_save(p, build_only_, rebuild) ==
    /\ CanCall(p)
    /\ IF OptionsExist
         THEN /\ result' = [result EXCEPT ![p] = "RuntimeError"]
              /\ UNCHANGED options_file
         ELSE /\ result' = [result EXCEPT ![p] = "None"]
              /\ options_file' = as_dict(build_only_, rebuild)
    /\ ncalls' = [ncalls EXCEPT ![p] = @ + 1]
    /\ op' = [op EXCEPT ![p] = "opts_save"]
    /\ UNCHANGED <<status, pc, build_only, run_timeout, now, mtime, child,
                   exitcode, hung, timeout, wait_start, started, finished,
                   launches>>
    /\ UNCHANGED <<exists, config_file, self_config, skipped, build_origin,
                   build_path, builds, links, config_writes>>
    /\ LifeFrame

Init ==
    /\ AllocIdle /\ SkipIdle
    /\ LifeIdle /\ WaitIdle
    /\ pc = [p \in Procs |-> "none"]
    /\ now = 0
    /\ mtime = None
    /\ child = [p \in Procs |-> "none"]
    /\ exitcode = [p \in Procs |-> None]
    /\ hung = [p \in Procs |-> FALSE]
    /\ timeout = [p \in Procs |-> None]
    /\ wait_start = [p \in Procs |-> None]
    /\ started = [p \in Procs |-> None]
    /\ finished = [p \in Procs |-> None]
    /\ result = [p \in Procs |-> "None"]
    /\ op = [p \in Procs |-> "none"]
    /\ ncalls = [p \in Procs |-> 0]
    /\ launches = 0
    /\ status = <<>>
    /\ run_timeout = None
    /\ build_only \in BOOLEAN

Next ==
    \/ \E p \in Procs : \E cfg \in LifeConfigs : create(p, cfg)
    \/ \E p \in Procs : load(p)
    \/ \E p \in Procs : \E to \in ResolvedStrings : finalize(p, to)
    \/ \E p \in Procs : build_check(p)
    \/ \E p \in Procs : \E ok \in BOOLEAN : builder_build(p, ok)
    \/ \E p \in Procs : \E copied \in BOOLEAN : build_link(p, copied)
    \/ \E p \in Procs : build_fail_rename(p)
    \/ \E p \in Procs : run_refused(p)
    \/ \E p \in Procs : run_launch(p)
    \/ \E p \in Procs : wait_returned(p)
    \/ \E p \in Procs : \E code \in ExitCodes : ChildExit(p, code)
    \/ \E p \in Procs : set_run_complete_open(p)
    \/ \E p \in Procs : set_run_complete_dump(p)
    \/ \E p \in Procs : \E b, r \in BOOLEAN : opts_save(p, b, r)

Spec == Init /\ [][Next]_vars

\* ------------------------------------------------------------ claims, 4.7
\* C5: a build() called when the build_origin link exists raises
\* RuntimeError before the Build Subsystem is called, and leaves the link,
\* the build directory and the status file as they were.
C5_SecondBuildFails ==
    [][\A p \in Procs :
         (build_origin /\ ncalls'[p] # ncalls[p] /\ op'[p] = "build")
            => /\ result'[p] = "RuntimeError"
               /\ pc'[p] = "ready"
               /\ UNCHANGED <<build_origin, build_path, status, builds, links>>]_vars

\* a build() refused after a build that was linked and copied
C5_Witness ==
    /\ build_origin /\ build_path = "copied" /\ builds = 1 /\ links = 1
    /\ \E p \in Procs : op[p] = "build" /\ result[p] = "RuntimeError"

\* C6: over any build() calls on one run, the Build Subsystem's build is
\* called at most once and the build_origin link is created at most once.
C6_AtMostOneBuild == builds <= 1 /\ links <= 1

\* C9: once the status file holds a COMPLETE entry of a skip, no step calls
\* the Build Subsystem, launches the run script, or appends a BUILDING,
\* PREPPING_RUN or RUNNING entry.
SkipComplete == \E i \in 1..Len(status) : status[i] = "COMPLETE"
C9_SkipNeverBuildsOrRuns ==
    [][SkipComplete
         => /\ builds' = builds
            /\ launches' = launches
            /\ \A i \in 1..Len(status') :
                  i > Len(status)
                     => status'[i] \notin {"BUILDING", "PREPPING_RUN", "RUNNING"}]_vars

\* C11: once the RUN_COMPLETE marker is written, no step of any process
\* appends a status entry or writes the marker again.
C11_MarkerFinal ==
    [][Written => (status' = status /\ complete_file' = complete_file)]_vars

\* a step in which process p makes the call 'name'
Calls(p, name) == ncalls'[p] # ncalls[p] /\ op'[p] = name

\* C14: the config file that finalize leaves loads back as the finalized
\* self.config, and TestRun.load gives an object whose config is what the
\* file loads as: finalize and then load give a config equal to the
\* finalized one.
C14_ConfigRoundTrip ==
    [][\A p \in Procs :
         /\ Calls(p, "finalize")
               => json_load_config(config_file') = self_config'[p]
         /\ Calls(p, "load")
               => self_config'[p] = json_load_config(config_file)]_vars

\* a config loaded by one process that equals the config another has
\* finalized, a deferred value of the created config resolved in it
C14_Witness ==
    \E p, q \in Procs :
        /\ p # q
        /\ op[p] = "finalize" /\ op[q] = "load"
        /\ self_config[q] = self_config[p]
        /\ self_config[p] \notin LifeConfigs
        /\ json_load_config(config_file) = self_config[p]

\* C15: the config file is written at creation and at most once more, by
\* finalize: never more than twice, and by no other operation.
C15_ConfigWrittenTwice ==
    [][/\ config_writes' <= 2
       /\ (config_file' # config_file \/ config_writes' # config_writes)
             => \E p \in Procs : Calls(p, "create") \/ Calls(p, "finalize")]_vars

\* C16: once the options file exists no step changes it, and a
\* TestRunOptions.save on the run raises RuntimeError.
C16_OptionsWriteOnce ==
    [][options_file.exists
         => /\ options_file' = options_file
            /\ \A p \in Procs :
                  Calls(p, "opts_save") => result'[p] = "RuntimeError"]_vars

\* a save refused on a run that has since been loaded and built
C16_Witness ==
    /\ options_file.exists /\ builds > 0
    /\ \E p \in Procs : op[p] = "opts_save" /\ result[p] = "RuntimeError"

\* C17: once the run is created its status file is never empty and begins
\* with CREATED, and every step leaves the entries it held as a prefix of
\* the entries it holds.
IsPrefix(s, t) == Len(s) <= Len(t) /\ \A i \in 1..Len(s) : s[i] = t[i]
C17_StatusOnlyGrows ==
    /\ [](exists => (Len(status) > 0 /\ status[1] = "CREATED"))
    /\ [][IsPrefix(status, status')]_vars

\* a status file that several calls of two processes have appended to
C17_Witness ==
    /\ exists /\ Len(status) >= 6 /\ status[1] = "CREATED"
    /\ \A p \in Procs : ncalls[p] >= 2

\* C20: a build() whose Build Subsystem build failed returns False without
\* raising, with the failed build moved to the run's build path and no
\* build_origin link created; the link is created only after a build that
\* succeeded.
C20_BuildFailureReturned ==
    [][\A p \in Procs :
         /\ (pc[p] = "build_failed" /\ pc'[p] = "ready")
               => /\ result'[p] = "False"
                  /\ build_path' = "failed"
                  /\ links' = links
         /\ (pc'[p] # pc[p] /\ links' # links) => pc[p] = "built"]_vars

\* ============================================================ 4.8 results
\* result_parsers.PASS and FAIL, and what a result parser may store under
\* the key 'result'
PASS == "PASS"
FAIL == "FAIL"
ParserResults == {"none", PASS, FAIL, "ERROR"}

\* 'if run_result: default_result = PASS, else FAIL'
default_result(run_result_) == IF run_result_ THEN PASS ELSE FAIL

\* result_parsers.parse_results: the parsers of the config run over the
\* seeded results; one of them may override the key 'result'
parse_results(results, parsed) ==
    IF parsed = "none" THEN results ELSE [results EXCEPT !.result = parsed]

\* json.dump and json.load of a results mapping
results_json_dump(results) ==
    [form |-> "object", members |-> <<[key |-> "result", val |-> results.result]>>]
results_json_load(text) == [result |-> dict_get(text.members, "result")]

\* the dictionary of basic information the results property returns for a
\* run without results: 'result': None
BasicResults == [result |-> "None"]

\* 'if self.finished is None': the first test of gather_results
FinishedNever(p) == FALSE
FinishedIsNone(p) == finished[p] = None

\* gather_results(run_result): RuntimeError unless the object has run; the
\* seed, the RESULTS status, the parsers, the cache
gather_results(p, run_result_, parsed) ==
    /\ CanCall(p)
    /\ IF FinishedIsNone(p)
         THEN /\ result' = [result EXCEPT ![p] = "RuntimeError"]
              /\ UNCHANGED <<status, self_results, results_val>>
         ELSE LET results ==
                    parse_results([result |-> default_result(run_result_)], parsed)
              IN  /\ status' = StatusSet(status, "RESULTS")
                  /\ self_results' = [self_results EXCEPT ![p] = results]
                  /\ results_val' = [results_val EXCEPT ![p] = results]
                  /\ result' = [result EXCEPT ![p] = "returned"]
    /\ run_result' = [run_result EXCEPT ![p] = run_result_]
    /\ op' = [op EXCEPT ![p] = "gather_results"]
    /\ ncalls' = [ncalls EXCEPT ![p] = @ + 1]
    /\ UNCHANGED <<pc, build_only, run_timeout, now, mtime, child, exitcode,
                   hung, timeout, wait_start, started, finished, launches>>
    /\ UNCHANGED <<results_file, results_writes>>
    /\ ResFrame

\* save_results(results): results.json opened 'w' and the mapping dumped
save_results(p, results) ==
    /\ CanCall(p)
    /\ results_file' = [exists |-> TRUE, text |-> results_json_dump(results)]
    /\ results_writes' = results_writes + 1
    /\ result' = [result EXCEPT ![p] = "None"]
    /\ op' = [op EXCEPT ![p] = "save_results"]
    /\ ncalls' = [ncalls EXCEPT ![p] = @ + 1]
    /\ UNCHANGED <<status, pc, build_only, run_timeout, now, mtime, child,
                   exitcode, hung, timeout, wait_start, started, finished,
                   launches>>
    /\ UNCHANGED <<self_results, results_val, run_result>>
    /\ ResFrame

\* 'if self._results is None and self.results_path.exists()': the test of
\* the results property that lets it read the file
CacheEmpty(p) == self_results[p] = NoResults /\ results_file.exists

\* the results property: the file loaded into an empty cache, then the
\* cache, or the basic information when there is none
read_results(p) ==
    /\ CanCall(p)
    /\ LET cached == IF CacheEmpty(p)
                        THEN results_json_load(results_file.text)
                        ELSE self_results[p]
       IN  /\ self_results' = [self_results EXCEPT ![p] = cached]
           /\ results_val' = [results_val EXCEPT ![p] =
                                 IF cached = NoResults THEN BasicResults
                                 ELSE cached]
    /\ result' = [result EXCEPT ![p] = "returned"]
    /\ op' = [op EXCEPT ![p] = "results"]
    /\ ncalls' = [ncalls EXCEPT ![p] = @ + 1]
    /\ UNCHANGED <<status, pc, build_only, run_timeout, now, mtime, child,
                   exitcode, hung, timeout, wait_start, started, finished,
                   launches>>
    /\ UNCHANGED <<results_file, run_result, results_writes>>
    /\ ResFrame

\* the status file after the runs of n processes whose script exited
RECURSIVE StatusAfterRuns(_)
StatusAfterRuns(n) ==
    IF n = 0 THEN <<"CREATED", "CREATED">>
    ELSE StatusAfterRuns(n - 1)
           \o <<"PREPPING_RUN", "RUNNING", "RUNNING", "RUN_DONE">>

\* a created run; each process holds an object of it, and the processes
\* up to some number have called run() and seen the script exit
ResultsInit ==
    /\ AllocIdle /\ SkipIdle
    /\ CreatedRun /\ WaitIdle
    /\ run_timeout = None
    /\ build_only = FALSE
    /\ now = 0
    /\ pc = [p \in Procs |-> "ready"]
    /\ hung = [p \in Procs |-> FALSE]
    /\ timeout = [p \in Procs |-> None]
    /\ wait_start = [p \in Procs |-> None]
    /\ op = [p \in Procs |-> "none"]
    /\ ncalls = [p \in Procs |-> 0]
    /\ result = [p \in Procs |-> "None"]
    /\ \E n \in 0..NumProcs :
          /\ launches = n
          /\ mtime = IF n = 0 THEN None ELSE 0
          /\ child = [p \in Procs |-> IF p <= n THEN "exited" ELSE "none"]
          /\ exitcode = [p \in Procs |-> IF p <= n THEN 0 ELSE None]
          /\ started = [p \in Procs |-> IF p <= n THEN 0 ELSE None]
          /\ finished = [p \in Procs |-> IF p <= n THEN 0 ELSE None]
          /\ status = StatusAfterRuns(n)

ResultMaps == {[result |-> v] : v \in {PASS, FAIL}}

ResultsNext ==
    \/ \E p \in Procs : \E rr \in BOOLEAN : \E parsed \in ParserResults :
          gather_results(p, rr, parsed)
    \/ \E p \in Procs : \E results \in ResultMaps : save_results(p, results)
    \/ \E p \in Procs : read_results(p)

SpecResults == ResultsInit /\ [][ResultsNext]_vars

\* the run of one process, the objects the other processes load of it, and
\* the results they gather; the run has no timeout or a timeout of 1, and
\* the clock, which only run() reads, is followed while the script runs
GatherInit == RunInit /\ run_timeout \in {None, 1}

GatherNext ==
    \/ run_refused(Runner)
    \/ run_launch(Runner)
    \/ wait_expired(Runner)
    \/ run_timeout_status(Runner)
    \/ run_timeout_finished(Runner)
    \/ run_timed_out(Runner)
    \/ wait_returned(Runner)
    \/ \E code \in ExitCodes : ChildExit(Runner, code)
    \/ child[Runner] = "running" /\ Tick
    \/ \E p \in Procs \ {Runner} : load(p)
    \/ \E p \in Procs : \E rr \in BOOLEAN : gather_results(p, rr, "none")

SpecGather == GatherInit /\ [][GatherNext]_vars

\* ================================================ claims, run and results
\* C21: run() on a build-only run starts no child, leaves the run log,
\* started and finished as they were, appends the one status RUN_ERROR and
\* returns False.
C21_BuildOnlyRefused ==
    [][\A p \in Procs :
         (build_only /\ Calls(p, "run"))
            => /\ child' = child
               /\ launches' = launches
               /\ mtime' = mtime
               /\ started' = started
               /\ finished' = finished
               /\ status' = Append(status, "RUN_ERROR")
               /\ result'[p] = "False"]_vars

\* a refused run: no run log, nothing started
C21_Witness ==
    /\ build_only
    /\ op[Runner] = "run" /\ result[Runner] = "False"
    /\ Last(status) = "RUN_ERROR"
    /\ mtime = None /\ started[Runner] = None /\ launches = 0

\* C22: when the child has exited, run() returns True iff the exit code is
\* zero and False for any other code, and the status it appends is RUN_DONE.
C22_ExitCodeDecides ==
    [][\A p \in Procs :
         (pc[p] = "waiting" /\ pc'[p] = "ready" /\ child[p] = "exited")
            => /\ result'[p] \in {"True", "False"}
               /\ result'[p] = "True" <=> exitcode[p] = 0
               /\ status' = Append(status, "RUN_DONE")]_vars

\* run() has returned False for the exit code 255
C22_Witness ==
    /\ pc[Runner] = "ready" /\ op[Runner] = "run"
    /\ child[Runner] = "exited" /\ exitcode[Runner] = 255
    /\ result[Runner] = "False" /\ Last(status) = "RUN_DONE"

\* C23: a call of create, finalize, build, run or gather_results that
\* raises has appended a status entry before the error leaves it.
FatalOps == {"create", "finalize", "build", "run", "gather_results"}
ErrorNames == {"RuntimeError", "TestRunError", "TimeoutError", "OSError",
               "FileExistsError", "AttributeError"}
C23_FatalWritesStatus ==
    [][\A p \in Procs : \A name \in FatalOps :
         (Calls(p, name) /\ pc'[p] = "ready" /\ result'[p] \in ErrorNames)
            => (Len(status') > Len(status) /\ IsPrefix(status, status'))]_vars

\* C24: when gather_results returns, the mapping it returns is cached,
\* results.json exists and holds that mapping, and results.json is never
\* written a second time.
C24_GatherPersistsOnce ==
    [][/\ \A p \in Procs :
            (Calls(p, "gather_results") /\ result'[p] = "returned")
               => /\ self_results'[p] = results_val'[p]
                  /\ results_file'.exists
                  /\ results_json_load(results_file'.text) = results_val'[p]
       /\ results_writes' <= 1]_vars

\* C25: with results.json present, the results property of every process
\* returns the mapping stored in the file, whatever the process has cached.
C25_FileIsTruth ==
    [][\A p \in Procs :
         (Calls(p, "results") /\ results_file.exists)
            => results_val'[p] = results_json_load(results_file.text)]_vars

\* C26: at a wakeup of the run loop by the expired wait, the child is
\* killed iff the quiet time is greater than or equal to the run timeout;
\* the loop waits again only when the quiet time is strictly less.
Wakeup(p) ==
    /\ pc[p] = "waiting" /\ child[p] = "running"
    /\ \/ child'[p] = "killed"
       \/ timeout'[p] # timeout[p]
       \/ wait_start'[p] # wait_start[p]
C26_KillAtEqual ==
    [][\A p \in Procs :
         Wakeup(p) => (child'[p] = "killed" <=> now - mtime >= run_timeout)]_vars

\* C27: on the timeout path the child is killed before the RUN_TIMEOUT
\* status is appended, the status is appended before finished is set, and
\* finished is set before the TimeoutError is raised (finished is seen
\* unset until then in an object's first run); RUN_DONE is not
\* appended on that path, and a run() that launched a child and has ended
\* has appended PREPPING_RUN, RUNNING, RUNNING and then exactly one of
\* RUN_DONE and RUN_TIMEOUT.
OnTimeoutPath(p) == pc[p] \in {"killed", "timeout_set", "timeout_finished"}
InRun(p) == pc[p] = "waiting" \/ OnTimeoutPath(p)
C27_TimeoutOrder ==
    [][\A p \in {Runner} :
         /\ (status' # status /\ Last(status') = "RUN_TIMEOUT")
               => (child[p] = "killed" /\ (launches = 1 => finished[p] = None)
                     /\ status' = Append(status, "RUN_TIMEOUT")
                     /\ finished' = finished /\ pc'[p] # "ready")
         /\ (OnTimeoutPath(p) /\ finished'[p] # finished[p])
               => (Last(status) = "RUN_TIMEOUT" /\ pc'[p] # "ready"
                     /\ result' = result)
         /\ (InRun(p) /\ pc'[p] = "ready" /\ result'[p] = "TimeoutError")
               => (finished[p] # None /\ Last(status) = "RUN_TIMEOUT"
                     /\ status' = status /\ finished' = finished)
         /\ OnTimeoutPath(p)
               => (status' = status \/ status' = Append(status, "RUN_TIMEOUT"))
         /\ (InRun(p) /\ pc'[p] = "ready")
               => LET n == Len(status')
                  IN  /\ n >= 6
                      /\ status'[n] \in {"RUN_DONE", "RUN_TIMEOUT"}
                      /\ status'[n - 1] = "RUNNING"
                      /\ status'[n - 2] = "RUNNING"
                      /\ status'[n - 3] = "PREPPING_RUN"
                      /\ status'[n] = "RUN_TIMEOUT" <=> result'[p] = "TimeoutError"]_vars

\* a run() that raised the TimeoutError, and one before it that ended
\* with RUN_DONE
C27_Witness ==
    /\ pc[Runner] = "ready" /\ result[Runner] = "TimeoutError"
    /\ child[Runner] = "killed" /\ finished[Runner] # None
    /\ Last(status) = "RUN_TIMEOUT"
    /\ \E i \in 1..Len(status) : status[i] = "RUN_DONE"

\* C28: after a wakeup that does not kill the child, with the quiet time
\* below the run timeout, the budget of the next wait is positive and is
\* the run timeout minus the quiet time.
C28_BudgetPositive ==
    [][\A p \in Procs :
         (Wakeup(p) /\ child'[p] # "killed" /\ now - mtime < run_timeout)
            => /\ timeout'[p] > 0
               /\ timeout'[p] = run_timeout - (now - mtime)]_vars

\* C29: wait raises its TimeoutError only while the completion marker
\* cannot be read: with the marker written before the raise, even during
\* the last sleep, wait returns.
C29_NoTimeoutWithMarker ==
    [][\A p \in Procs :
         (InWait(p) /\ pc'[p] = "ready" /\ result'[p] = "TimeoutError")
            => complete(complete_file) = None]_vars

\* C30: TestRun.load appends nothing to the status file, whatever the run
\* directory holds, a config that skips included.
C30_LoadReadOnly ==
    [][\A p \in Procs : Calls(p, "load") => status' = status]_vars

\* C32: gather_results returns only on an object whose own run() launched
\* a child and set finished, by the exit or by the timeout; on an object
\* with finished unset (never run, refused as build-only, or loaded by id
\* after another process ran) it raises RuntimeError, appends no status
\* and caches nothing.
C32_GatherNeedsOwnRun ==
    [][\A p \in Procs :
         Calls(p, "gather_results")
            => /\ (finished[p] = None \/ build_only)
                    => /\ result'[p] = "RuntimeError"
                       /\ status' = status
                       /\ self_results' = self_results
                       /\ results_val' = results_val
               /\ result'[p] \in {"RuntimeError", "returned"}
               /\ result'[p] = "returned"
                    => /\ finished[p] # None /\ started[p] # None
                       /\ child[p] \in {"exited", "killed"}
                       /\ status' = Append(status, "RESULTS")
                       /\ self_results'[p] = results_val'[p]]_vars

\* the runner's script was killed at the timeout and the runner gathered
\* results; another process, whose object never ran, was refused
C32_Witness ==
    \E q \in Procs \ {Runner} :
        /\ child[Runner] = "killed" /\ finished[Runner] # None
        /\ op[Runner] = "gather_results" /\ result[Runner] = "returned"
        /\ op[q] = "gather_results" /\ result[q] = "RuntimeError"
        /\ finished[q] = None /\ self_results[q] = NoResults
        /\ Last(status) = "RESULTS"

====
